---- MODULE Spec2Model ----
(***************************************************************************)
(* Model of mdx_converter.py: the command-line driver (main,               *)
(* process_directory, process_file and the exits of the two converters),   *)
(* the three re.sub passes that strip MDX markup, and the loop that walks  *)
(* the parsed HTML and fills the Word document.                            *)
(*                                                                         *)
(* Text is a sequence of one-character strings, except that the keywords   *)
(* "import" and "export" are single tokens.  A stripped text is kept as    *)
(* the sequence of the positions of mdx_content that survive, so that      *)
(* "this character of the input is still there" can be stated.             *)
(***************************************************************************)
EXTENDS Integers, Sequences, FiniteSets, TLC

VARIABLES
    fs,           \* the files below the input directory: records [dir, name]
    fault,        \* what goes wrong when a file of fs is converted
    input_path,   \* args.input_path
    format,       \* args.format
    pc,           \* position of the run of main()
    formats,      \* the list main() builds from args.format
    mdx_files,    \* the list process_directory() enumerates
    file_i,       \* index in mdx_files of the file being processed
    fmt_i,        \* index in formats of the format being written
    outputs,      \* the files of the output directory: [path, src, status]
    written,      \* every open-for-write so far: [path, src]
    processed,    \* the files process_file() returned from
    exit_code,    \* "running", or the exit status of the process
    stderr,       \* the messages printed to sys.stderr
    mdx_content,  \* the text read from the .mdx file
    kept,         \* the positions of mdx_content left after the passes so far
    spc,          \* the next re.sub pass
    soup,         \* the parsed HTML: a sequence of nodes in document order
    pos,          \* the next element of soup.find_all(...)
    doc,          \* the paragraphs added to the Word document
    saved         \* doc.save(output_path) has run

vars == <<fs, fault, input_path, format, pc, formats, mdx_files, file_i, fmt_i,
          outputs, written, processed, exit_code, stderr,
          mdx_content, kept, spc, soup, pos, doc, saved>>

driverVars == <<fs, fault, input_path, format, pc, formats, mdx_files, file_i,
                fmt_i, outputs, written, processed, exit_code, stderr>>

stripVars == <<mdx_content, kept, spc>>

docxVars == <<soup, pos, doc, saved>>

(***************************************************************************)
(* Bounds of the model.                                                    *)
(***************************************************************************)
MaxFiles == 3

(***************************************************************************)
(* Paths.  A file name is a sequence of tokens; "mdx", "MDX" and "md" are  *)
(* the letters after a dot, taken whole.                                   *)
(***************************************************************************)
InputDir == [dir |-> <<>>, name |-> <<>>]

File(d, n) == [dir |-> d, name |-> n]

UniverseFiles ==
    { File(<<>>, <<"a", ".", "mdx">>),
      File(<<"s">>, <<"a", ".", "mdx">>),
      File(<<>>, <<"b", ".", "mdx">>),
      File(<<>>, <<"a", ".", "MDX">>),
      File(<<>>, <<"a", ".", "md">>),
      File(<<>>, <<".", "mdx">>) }

\* how the conversion of a file goes: "read" fails in open()/read() of either
\* converter, "pisa" in pisa.CreatePDF after the PDF was opened for writing,
\* "docx" in the Word conversion before doc.save() wrote anything
FaultKinds == {"none", "read", "pisa", "docx"}

\* str.rfind('.') + 1, 0 when there is no dot
LastDot(name) ==
    LET dots == {i \in 1..Len(name) : name[i] = "."}
    IN  IF dots = {} THEN 0 ELSE CHOOSE i \in dots : \A j \in dots : j <= i

\* pathlib: PurePath.suffix
suffix(name) ==
    LET i == LastDot(name)
    IN  IF 1 < i /\ i < Len(name) THEN SubSeq(name, i, Len(name)) ELSE <<>>

\* pathlib: PurePath.stem
stem(name) ==
    LET i == LastDot(name)
    IN  IF 1 < i /\ i < Len(name) THEN SubSeq(name, 1, i - 1) ELSE name

\* str.lower
lower(s) == [k \in 1..Len(s) |-> IF s[k] = "MDX" THEN "mdx" ELSE s[k]]

\* Path(mdx_dir).glob('**/*.mdx') on a case-sensitive file system: every file
\* at any depth whose name ends in ".mdx"
Glob(files) ==
    {f \in files : /\ Len(f.name) >= 2
                   /\ f.name[Len(f.name) - 1] = "."
                   /\ f.name[Len(f.name)] = "mdx"}

\* the orders list(glob) may come in
Orders(S) ==
    {s \in [1..Cardinality(S) -> S] :
        \A i, j \in 1..Cardinality(S) : i # j => s[i] # s[j]}

\* os.path.join(output_dir, f"{filename}.{fmt}"), relative to output_dir
output_path(f, fmt) == stem(f.name) \o <<".", fmt>>

\* the format list without the test of args.format
FormatsAlwaysBoth(fmt) == <<"pdf", "docx">>

\* main(): "Convert format to a list of formats"
Formats(fmt) == IF fmt = "both" THEN <<"pdf", "docx">> ELSE <<fmt>>

\* open(path, "wb") / doc.save(path): creates the file or replaces it
Write(outs, p, f, st) ==
    {o \in outs : o.path # p} \cup {[path |-> p, src |-> f, status |-> st]}

\* a failure handler that removes what was written for the file
AfterFailureCleanup(outs, f) == {o \in outs : o.src # f}

\* what a failed conversion leaves in the output directory: the handlers
\* print and exit, nothing is removed
AfterFailure(outs, f) == outs

(***************************************************************************)
(* The driver.                                                             *)
(***************************************************************************)
\* The state main() starts in.  A .md file is never converted, so nothing is
\* drawn for what its conversion would do.
InitDriver ==
    /\ fs \in {S \in SUBSET UniverseFiles : Cardinality(S) <= MaxFiles}
    /\ fault \in {fl \in [fs -> FaultKinds] :
                    \A f \in fs : f.name[Len(f.name)] = "md" => fl[f] = "none"}
    /\ input_path \in {InputDir} \cup UniverseFiles
    /\ format \in {"pdf", "docx", "both"}
    /\ pc = "main"
    /\ formats = <<>>
    /\ mdx_files = <<>>
    /\ file_i = 1
    /\ fmt_i = 1
    /\ outputs = {}
    /\ written = {}
    /\ processed = {}
    /\ exit_code = "running"
    /\ stderr = <<>>
    /\ mdx_content = <<>> /\ kept = <<>> /\ spc = "idle"
    /\ soup = <<>> /\ pos = 1 /\ doc = <<>> /\ saved = FALSE

\* sys.exit(1) after a message on stderr
Exit1(msg) ==
    /\ stderr' = Append(stderr, msg)
    /\ exit_code' = 1
    /\ pc' = "exit"

\* an extension test that lets Markdown files through as well
IsMdxOrMd(p) == lower(suffix(p.name)) \in {<<".", "mdx">>, <<".", "md">>}

\* the extension test of single-file mode
IsMdx(p) == lower(suffix(p.name)) = <<".", "mdx">>

\* main(): the arguments, the format list, and the choice of mode.
\* os.makedirs creates the output directory on every path through here; it
\* puts no file in it.
main ==
    /\ pc = "main"
    /\ formats' = Formats(format)
    /\ IF input_path \in fs
       THEN IF ~IsMdx(input_path)
            THEN /\ Exit1("not an MDX file")
                 /\ UNCHANGED mdx_files
            ELSE /\ mdx_files' = <<input_path>>
                 /\ pc' = "process_file"
                 /\ UNCHANGED <<stderr, exit_code>>
       ELSE IF input_path = InputDir
            THEN /\ pc' = "process_directory"
                 /\ UNCHANGED <<mdx_files, stderr, exit_code>>
            ELSE /\ Exit1("not found")
                 /\ UNCHANGED mdx_files
    /\ UNCHANGED <<fs, fault, input_path, format, file_i, fmt_i, outputs,
                   written, processed>>
    /\ UNCHANGED <<stripVars, docxVars>>

\* process_directory(): the enumeration
process_directory ==
    /\ pc = "process_directory"
    /\ \E order \in Orders(Glob(fs)) :
          /\ mdx_files' = order
          /\ pc' = IF order = <<>> THEN "return" ELSE "process_file"
    /\ UNCHANGED <<fs, fault, input_path, format, formats, file_i, fmt_i,
                   outputs, written, processed, exit_code, stderr>>
    /\ UNCHANGED <<stripVars, docxVars>>

\* the end of one iteration of "for fmt in formats", and with the last format
\* of "for mdx_file in mdx_files"
NextFormat ==
    IF fmt_i < Len(formats)
    THEN /\ fmt_i' = fmt_i + 1
         /\ UNCHANGED <<file_i, processed, pc>>
    ELSE /\ fmt_i' = 1
         /\ file_i' = file_i + 1
         /\ processed' = processed \cup {mdx_files[file_i]}
         /\ pc' = IF file_i < Len(mdx_files) THEN "process_file" ELSE "return"

\* convert_mdx_to_pdf(), called from process_file()
convert_mdx_to_pdf ==
    /\ pc = "process_file"
    /\ formats[fmt_i] = "pdf"
    /\ LET f == mdx_files[file_i]
           p == output_path(f, "pdf")
       IN  CASE fault[f] = "read" ->
                  /\ Exit1("Error converting to PDF")
                  /\ outputs' = AfterFailure(outputs, f)
                  /\ UNCHANGED <<written, file_i, fmt_i, processed>>
             [] fault[f] = "pisa" ->
                  /\ Exit1("Error converting HTML to PDF")
                  /\ outputs' = AfterFailure(Write(outputs, p, f, "partial"), f)
                  /\ written' = written \cup {[path |-> p, src |-> f]}
                  /\ UNCHANGED <<file_i, fmt_i, processed>>
             [] OTHER ->
                  /\ outputs' = Write(outputs, p, f, "complete")
                  /\ written' = written \cup {[path |-> p, src |-> f]}
                  /\ NextFormat
                  /\ UNCHANGED <<stderr, exit_code>>
    /\ UNCHANGED <<fs, fault, input_path, format, formats, mdx_files>>
    /\ UNCHANGED <<stripVars, docxVars>>

\* convert_mdx_to_docx(), called from process_file()
convert_mdx_to_docx ==
    /\ pc = "process_file"
    /\ formats[fmt_i] = "docx"
    /\ LET f == mdx_files[file_i]
           p == output_path(f, "docx")
       IN  IF fault[f] \in {"read", "docx"}
           THEN /\ Exit1("Error converting to DOCX")
                /\ outputs' = AfterFailure(outputs, f)
                /\ UNCHANGED <<written, file_i, fmt_i, processed>>
           ELSE /\ outputs' = Write(outputs, p, f, "complete")
                /\ written' = written \cup {[path |-> p, src |-> f]}
                /\ NextFormat
                /\ UNCHANGED <<stderr, exit_code>>
    /\ UNCHANGED <<fs, fault, input_path, format, formats, mdx_files>>
    /\ UNCHANGED <<stripVars, docxVars>>

\* main() returns: the interpreter exits with status 0
Return ==
    /\ pc = "return"
    /\ pc' = "exit"
    /\ exit_code' = 0
    /\ UNCHANGED <<fs, fault, input_path, format, formats, mdx_files, file_i,
                   fmt_i, outputs, written, processed, stderr>>
    /\ UNCHANGED <<stripVars, docxVars>>

NextDriver == main \/ process_directory \/ convert_mdx_to_pdf \/ convert_mdx_to_docx \/ Return

SpecDriver == InitDriver /\ [][NextDriver]_vars

(***************************************************************************)
(* The Markup Stripper: the three re.sub passes of convert_mdx_to_docx     *)
(* (the same three lines open convert_mdx_to_pdf and convert_mdx_to_html). *)
(***************************************************************************)
MaxFrags == 4

\* [A-Z]
Upper == {"A"}

\* the pieces the source texts are put together from
Fragments ==
    { <<"<", "A", ">">>, <<"<", "/", "A", ">">>, <<"<", "A", "/", ">">>,
      <<"<", "A">>, <<">">>, <<"/">>,
      <<"x">>, <<"import">>, <<"export">>, <<";">>, <<"\n">> }

RECURSIVE Flatten(_)
Flatten(s) == IF s = <<>> THEN <<>> ELSE Head(s) \o Flatten(Tail(s))

\* the texts of at most n pieces
Texts(n) == {Flatten(s) : s \in UNION {[1..k -> Fragments] : k \in 0..n}}

\* the least k >= from in S, 0 when there is none
FirstIn(S, from) ==
    LET c == {k \in S : k >= from}
    IN  IF c = {} THEN 0 ELSE CHOOSE k \in c : \A j \in c : k <= j

At(t, k, ch) == k <= Len(t) /\ t[k] = ch

UpperAt(t, k) == k <= Len(t) /\ t[k] \in Upper

\* r'import.*?;' at p: the position of the match's last character, 0 for
\* no match ("." does not match a newline)
ImportMatch(t, p) ==
    IF t[p] # "import" THEN 0
    ELSE LET k == FirstIn({k \in 1..Len(t) : t[k] \in {";", "\n"}}, p + 1)
         IN  IF k # 0 /\ t[k] = ";" THEN k ELSE 0

\* the same pattern without re.DOTALL: the enclosed text may not hold a newline
ComponentMatchNoDotall(t, p) ==
    IF ~(t[p] = "<" /\ UpperAt(t, p + 1)) THEN 0
    ELSE LET g == FirstIn({k \in 1..Len(t) : t[k] = ">"}, p + 2)
             c == FirstIn({k \in 1..Len(t) :
                             t[k] = "<" /\ At(t, k + 1, "/") /\ UpperAt(t, k + 2)},
                          g + 1)
         IN  IF g = 0 \/ c = 0 THEN 0
             ELSE IF \E k \in (g + 1)..(c - 1) : t[k] = "\n" THEN 0
             ELSE FirstIn({k \in 1..Len(t) : t[k] = ">"}, c + 3)

\* r'<[A-Z][^>]*>.*?</[A-Z][^>]*>' with re.DOTALL at p
ComponentMatch(t, p) ==
    IF ~(t[p] = "<" /\ UpperAt(t, p + 1)) THEN 0
    ELSE LET g == FirstIn({k \in 1..Len(t) : t[k] = ">"}, p + 2)
             c == FirstIn({k \in 1..Len(t) :
                             t[k] = "<" /\ At(t, k + 1, "/") /\ UpperAt(t, k + 2)},
                          g + 1)
         IN  IF g = 0 \/ c = 0 THEN 0
             ELSE FirstIn({k \in 1..Len(t) : t[k] = ">"}, c + 3)

\* r'<[A-Z][^/>]*?/>' at p
SelfClosingMatch(t, p) ==
    IF ~(t[p] = "<" /\ UpperAt(t, p + 1)) THEN 0
    ELSE LET k == FirstIn({k \in 1..Len(t) : t[k] \in {"/", ">"}}, p + 2)
         IN  IF k # 0 /\ t[k] = "/" /\ At(t, k + 1, ">") THEN k + 1 ELSE 0

\* re.sub(pattern, '', t): ends[p] is where the match at p ends; the result
\* is the positions of t that no match covers, scanning from the left
RECURSIVE Scan(_, _)
Scan(ends, p) ==
    IF p > Len(ends) THEN <<>>
    ELSE IF ends[p] = 0 THEN <<p>> \o Scan(ends, p + 1)
    ELSE Scan(ends, ends[p] + 1)

StripImports(t) == Scan([p \in 1..Len(t) |-> ImportMatch(t, p)], 1)

StripComponents(t) == Scan([p \in 1..Len(t) |-> ComponentMatch(t, p)], 1)

StripSelfClosing(t) == Scan([p \in 1..Len(t) |-> SelfClosingMatch(t, p)], 1)

\* the text the passes so far have left
Cur == [k \in 1..Len(kept) |-> mdx_content[kept[k]]]

Keep(r) == [k \in 1..Len(r) |-> kept[r[k]]]

InitStrip ==
    /\ mdx_content \in Texts(MaxFrags)
    /\ kept = [k \in 1..Len(mdx_content) |-> k]
    /\ spc = "imports"
    /\ fs = {} /\ fault = <<>> /\ input_path = InputDir /\ format = "both"
    /\ pc = "idle" /\ formats = <<>> /\ mdx_files = <<>>
    /\ file_i = 1 /\ fmt_i = 1
    /\ outputs = {} /\ written = {} /\ processed = {}
    /\ exit_code = "running" /\ stderr = <<>>
    /\ soup = <<>> /\ pos = 1 /\ doc = <<>> /\ saved = FALSE

Pass1 ==
    /\ spc = "imports"
    /\ kept' = Keep(StripImports(Cur))
    /\ spc' = "components"
    /\ UNCHANGED <<mdx_content, driverVars, docxVars>>

Pass2 ==
    /\ spc = "components"
    /\ kept' = Keep(StripComponents(Cur))
    /\ spc' = "selfclosing"
    /\ UNCHANGED <<mdx_content, driverVars, docxVars>>

Pass3 ==
    /\ spc = "selfclosing"
    /\ kept' = Keep(StripSelfClosing(Cur))
    /\ spc' = "done"
    /\ UNCHANGED <<mdx_content, driverVars, docxVars>>

NextStrip == Pass1 \/ Pass2 \/ Pass3

SpecStrip == InitStrip /\ [][NextStrip]_vars

(***************************************************************************)
(* The Word emitter: the loop of convert_mdx_to_docx over                  *)
(* soup.find_all([...]).  soup is the element tree in document order: node *)
(* i has a tag, the index of its parent (0 for the top of the fragment)    *)
(* and, when text is TRUE, a text of its own, written i, ahead of its      *)
(* children.                                                               *)
(***************************************************************************)
MaxNodes == 5

Node(tag, parent, text) == [tag |-> tag, parent |-> parent, text |-> text]

\* node i of s and the nodes above it
RECURSIVE Anc(_, _)
Anc(s, i) == IF i = 0 THEN {0} ELSE {i} \cup Anc(s, s[i].parent)

\* the tags markdown2 nests under a tag
ChildTags(tag) ==
    CASE tag = "root" -> {"h1", "h2", "p", "pre", "ul", "ol"}
      [] tag = "li" -> {"p", "ul", "ol"}
      [] tag \in {"ul", "ol"} -> {"li"}
      [] tag = "pre" -> {"code"}
      [] tag = "p" -> {"code"}
      [] OTHER -> {}

OwnText(tag) ==
    CASE tag \in {"h1", "h2", "p", "code"} -> {TRUE}
      [] tag = "li" -> {TRUE, FALSE}
      [] OTHER -> {FALSE}

TagOf(s, i) == IF i = 0 THEN "root" ELSE s[i].tag

\* the nodes that can follow s in document order
Extensions(s) ==
    UNION {UNION {{Node(tag, par, text) : text \in OwnText(tag)} :
                  tag \in ChildTags(TagOf(s, par))} :
           par \in Anc(s, Len(s))}

RECURSIVE TreesOf(_)
TreesOf(n) ==
    IF n = 0 THEN {<<>>}
    ELSE UNION {{Append(s, nd) : nd \in Extensions(s)} : s \in TreesOf(n - 1)}

\* the trees of at most n elements
Soups(n) == UNION {TreesOf(k) : k \in 0..n}

RECURSIVE SortedSeq(_)
SortedSeq(S) ==
    IF S = {} THEN <<>>
    ELSE LET m == CHOOSE k \in S : \A j \in S : k <= j
         IN  <<m>> \o SortedSeq(S \ {m})

\* element.text: the texts of the element and of everything below it
Text(s, i) == SortedSeq({k \in i..Len(s) : i \in Anc(s, k) /\ s[k].text})

\* element.find_all('li', recursive=False)
ChildItems(s, i) ==
    SortedSeq({k \in 1..Len(s) : s[k].parent = i /\ s[k].tag = "li"})

\* int(element.name[1])
Level(tag) == IF tag = "h1" THEN 1 ELSE 2

Para(style, prefix, text, node) ==
    [style |-> style, prefix |-> prefix, text |-> text, node |-> node]

InitDocx ==
    /\ soup \in Soups(MaxNodes)
    /\ pos = 1
    /\ doc = <<>>
    /\ saved = FALSE
    /\ fs = {} /\ fault = <<>> /\ input_path = InputDir /\ format = "both"
    /\ pc = "idle" /\ formats = <<>> /\ mdx_files = <<>>
    /\ file_i = 1 /\ fmt_i = 1
    /\ outputs = {} /\ written = {} /\ processed = {}
    /\ exit_code = "running" /\ stderr = <<>>
    /\ mdx_content = <<>> /\ kept = <<>> /\ spc = "idle"

Visit(tags) == pos <= Len(soup) /\ soup[pos].tag \in tags

Step(paras) ==
    /\ doc' = doc \o paras
    /\ pos' = pos + 1
    /\ UNCHANGED <<soup, saved, driverVars, stripVars>>

\* element.name.startswith('h')
AddHeading ==
    /\ Visit({"h1", "h2"})
    /\ Step(<<Para("Heading", Level(soup[pos].tag), Text(soup, pos), pos)>>)

\* element.name == 'p'
AddParagraph ==
    /\ Visit({"p"})
    /\ Step(<<Para("Normal", 0, Text(soup, pos), pos)>>)

\* element.name == 'pre' or element.name == 'code'
AddCode ==
    /\ Visit({"pre", "code"})
    /\ Step(<<Para("Courier New", 0, Text(soup, pos), pos)>>)

\* element.name == 'ul': one paragraph for each item directly below
AddBullets ==
    /\ Visit({"ul"})
    /\ LET items == ChildItems(soup, pos)
       IN  Step([i \in 1..Len(items) |->
                   Para("List Bullet", 0, Text(soup, items[i]), items[i])])

\* element.name == 'ol': the same, with the item's number ahead of its text
AddNumbers ==
    /\ Visit({"ol"})
    /\ LET items == ChildItems(soup, pos)
       IN  Step([i \in 1..Len(items) |->
                   Para("List Number", i, Text(soup, items[i]), items[i])])

\* an 'li' that find_all yields: no branch of the loop takes it
SkipItem ==
    /\ Visit({"li"})
    /\ Step(<<>>)

\* doc.save(output_path)
SaveDoc ==
    /\ pos = Len(soup) + 1
    /\ ~saved
    /\ saved' = TRUE
    /\ UNCHANGED <<soup, pos, doc, driverVars, stripVars>>

NextDocx ==
    \/ AddHeading \/ AddParagraph \/ AddCode \/ AddBullets \/ AddNumbers
    \/ SkipItem \/ SaveDoc

SpecDocx == InitDocx /\ [][NextDocx]_vars

(***************************************************************************)
(* Claims about the driver (SpecDriver).                                   *)
(***************************************************************************)
DirMode == input_path = InputDir

\* the formats the --format option asks for
Requested ==
    CASE format = "pdf" -> {"pdf"}
      [] format = "docx" -> {"docx"}
      [] format = "both" -> {"pdf", "docx"}

\* the conversion of f to fmt is one that fails
Fails(f, fmt) ==
    \/ fault[f] = "read"
    \/ fmt = "pdf" /\ fault[f] = "pisa"
    \/ fmt = "docx" /\ fault[f] = "docx"

FileFails(f) == \E fmt \in Requested : Fails(f, fmt)

Enumerated == {mdx_files[i] : i \in 1..Len(mdx_files)}

\* the name without its extension; a name that is only ".mdx" has none
Basename(name) ==
    IF Len(name) >= 3 /\ name[Len(name) - 1] = "."
    THEN SubSeq(name, 1, Len(name) - 2) ELSE name

\* the extension is .mdx, in either case
HasMdxExtension(name) ==
    /\ Len(name) >= 3
    /\ name[Len(name) - 1] = "."
    /\ name[Len(name)] \in {"mdx", "MDX"}

\* C1: in directory mode, when the process has stopped, every enumerated
\* file whose own conversion does not fail has a complete output for every
\* requested format, wherever the failing file stands in the enumeration.
C1_BatchSurvivesFailure ==
    (DirMode /\ pc = "exit") =>
        \A f \in Enumerated : ~FileFails(f) =>
            \A fmt \in Requested :
                \E o \in outputs : /\ o.path = Basename(f.name) \o <<".", fmt>>
                                   /\ o.status = "complete"

\* C2: in directory mode the process ends with the success exit code, also
\* when files of the batch failed to convert.
C2_DirExitCodeSuccess ==
    (DirMode /\ pc = "exit") => exit_code = 0

BadSinglePath ==
    /\ ~DirMode
    /\ input_path \notin fs \/ ~HasMdxExtension(input_path.name)

C4_OutputsMatchFormat ==
    /\ \A f \in processed :
          {w.path : w \in {v \in written : v.src = f}}
              = {Basename(f.name) \o <<".", fmt>> : fmt \in Requested}
    /\ \A w \in written : w.path[Len(w.path)] \in Requested

C4_Witness ==
    /\ pc = "exit" /\ exit_code = 0
    /\ format = "docx"
    /\ Cardinality(processed) = MaxFiles

\* C9: no step of the run removes a file of the output directory: what
\* exists before a step, a failing conversion included, exists after it,
\* and a failing conversion leaves every output already written for the
\* same source file as it was.
C9_NoCleanup ==
    [][/\ \A o \in outputs : \E n \in outputs' : n.path = o.path
       /\ (pc' = "exit" /\ exit_code' = 1) =>
             \A o \in outputs : o.src = mdx_files[file_i] => o \in outputs']_vars

C9_Witness ==
    /\ pc = "exit" /\ exit_code = 1
    /\ \E o \in outputs : o.src = mdx_files[file_i] /\ o.status = "complete"

\* C10: after a directory batch in which every file converted, each
\* requested format has as many output files as there are source files.
C10_NoOutputCollision ==
    (DirMode /\ pc = "exit" /\ exit_code = 0) =>
        \A fmt \in Requested :
            Cardinality({o \in outputs : o.path[Len(o.path)] = fmt})
                = Len(mdx_files)

(***************************************************************************)
(* Claims about the Markup Stripper (SpecStrip).                           *)
(***************************************************************************)
InKept(k) == \E j \in 1..Len(kept) : kept[j] = k

\* an opening tag <Name attributes> starts at i: the position of its ">",
\* 0 when none starts there
OpenTagEnd(t, i) ==
    IF ~(t[i] = "<" /\ UpperAt(t, i + 1)) THEN 0
    ELSE LET g == FirstIn({k \in 1..Len(t) : t[k] \in {"<", ">"}}, i + 2)
         IN  IF g # 0 /\ t[g] = ">" /\ t[g - 1] # "/" THEN g ELSE 0

\* a self-closing tag <Name attributes/> starts at i: the position of its ">"
SelfClosingEnd(t, i) ==
    IF ~(t[i] = "<" /\ UpperAt(t, i + 1)) THEN 0
    ELSE LET g == FirstIn({k \in 1..Len(t) : t[k] \in {"<", ">"}}, i + 2)
         IN  IF g # 0 /\ t[g] = ">" /\ t[g - 1] = "/" THEN g ELSE 0

\* "</" and an uppercase letter start at c
ClosingStart(t, c) == t[c] = "<" /\ At(t, c + 1, "/") /\ UpperAt(t, c + 2)

\* a closing tag </Name> starts at c
IsClose(t, c) == ClosingStart(t, c) /\ At(t, c + 3, ">")

Opens(t) == {i \in 1..Len(t) : OpenTagEnd(t, i) # 0}

Closes(t) == {c \in 1..Len(t) : IsClose(t, c)}

\* as many opening as closing tags strictly between g and c
Level0(t, g, c) ==
    Cardinality({i \in Opens(t) : g < i /\ i < c})
        = Cardinality({d \in Closes(t) : g < d /\ d < c})

\* <<i, c>>: the opening tag at i and its matching closing tag at c
BalancedSpans(t) ==
    {sp \in Opens(t) \X Closes(t) :
        LET g == OpenTagEnd(t, sp[1])
        IN  /\ g < sp[2]
            /\ t[sp[2] + 2] = t[sp[1] + 1]
            /\ Level0(t, g, sp[2])
            /\ \A d \in Closes(t) : (g < d /\ d < sp[2]) => ~Level0(t, g, d)}

SpanGone(sp) == \A k \in sp[1]..(sp[2] + 3) : ~InKept(k)

FirstToClose(t, c) ==
    \A k \in 1..(c - 1) : t[k] # "import" /\ ~ClosingStart(t, k)

Declarations(t) ==
    {d \in (1..Len(t)) \X (1..Len(t)) :
        /\ t[d[1]] \in {"import", "export"}
        /\ d[2] = FirstIn({k \in 1..Len(t) : t[k] = ";"}, d[1] + 1)}

\* C6: after the first pass, and so in the text handed to the renderer,
\* nothing is left of any import or export declaration, from its keyword
\* to the next statement terminator.
C6_DeclarationsRemoved ==
    spc \in {"components", "selfclosing", "done"} =>
        \A d \in Declarations(mdx_content) :
            \A k \in d[1]..d[2] : ~InKept(k)

SelfClosingTags(t) ==
    {sc \in (1..Len(t)) \X (1..Len(t)) : sc[2] = SelfClosingEnd(t, sc[1])}

\* the text right before and right after the tag sc
TextAround(t, sc) ==
    {k \in 1..Len(t) :
        \/ k > sc[2] /\ \A j \in (sc[2] + 1)..k : t[j] = "x"
        \/ k < sc[1] /\ \A j \in k..(sc[1] - 1) : t[j] = "x"}

\* C7: in a text without import declarations, once stripped, every
\* self-closing capitalised tag is gone, whatever its attributes, and the
\* text right before and right after it is kept, also when other component
\* markup follows.
C7_OnlySelfClosingTagRemoved ==
    (spc = "done" /\ \A k \in 1..Len(mdx_content) : mdx_content[k] # "import") =>
        \A sc \in SelfClosingTags(mdx_content) :
            /\ \A k \in sc[1]..sc[2] : ~InKept(k)
            /\ \A k \in TextAround(mdx_content, sc) : InKept(k)

(***************************************************************************)
(* Claim about the Word emitter (SpecDocx).                                *)
(***************************************************************************)
ListStyles == {"List Bullet", "List Number"}

IsListPara(para) == para.style \in ListStyles

Items == SortedSeq({k \in 1..Len(soup) : soup[k].tag = "li"})

\* the number of paragraphs of doc that hold text k
Emitted(k) ==
    Cardinality({j \in 1..Len(doc) :
                    \E m \in 1..Len(doc[j].text) : doc[j].text[m] = k})

\* C8: in the saved document, the list paragraphs are the list items of the
\* tree, one each and in document order, bulleted under ul and numbered
\* under ol, and no text of a list item stands in more than one paragraph.
C8_OneParagraphPerItem ==
    saved =>
        LET paras == SelectSeq(doc, IsListPara)
        IN  /\ [j \in 1..Len(paras) |-> paras[j].node] = Items
            /\ \A j \in 1..Len(paras) :
                  paras[j].style =
                      IF soup[soup[paras[j].node].parent].tag = "ul"
                      THEN "List Bullet" ELSE "List Number"
            /\ \A i \in 1..Len(Items) :
                  \A m \in 1..Len(Text(soup, Items[i])) :
                      Emitted(Text(soup, Items[i])[m]) <= 1

====
